---- MODULE Spec2Model ----
(***************************************************************************)
(* State-synchronisation core of the trading dashboard: the four zustand   *)
(* stores (trades, agents, portfolio, system), the trade filter, and the   *)
(* useWebSocket hook that routes socket events into the stores.            *)
(*                                                                         *)
(* JavaScript values are modelled as follows.                              *)
(*   - an optional value (a property that may be absent / undefined) is a  *)
(*     sequence of length 0 (undefined) or 1 (the value);                  *)
(*   - a string that the code inspects character by character (a token)    *)
(*     is a sequence of one-character strings;                             *)
(*   - a Date is an optional instant: <<>> is the Invalid Date (NaN).      *)
(***************************************************************************)
EXTENDS Integers, Sequences, FiniteSets, TLC

\* ------------------------------------------------------------------ bounds
MaxTrades == 3
MaxFilterLen == 2
MaxActs == 102
MaxEmits == 3
MaxSockets == 2
MaxCalls == 4
MaxRequests == 2
MaxGwEmits == 2
\* emissions of the server in the release-and-reacquire specification
MaxRelEmits == 2
\* calls of one cleanup function that are followed
MaxCleanRuns == 2

\* --------------------------------------------------------- JS value helpers
Undefined == <<>>
Some(v) == <<v>>
IsDefined(o) == o # <<>>

Reverse(s) == [i \in 1..Len(s) |-> s[Len(s) + 1 - i]]

Min(a, b) == IF a < b THEN a ELSE b

\* zustand's set(partial): Object.assign({}, state, partial)
ZSet(state, partial) ==
    [k \in DOMAIN state |-> IF k \in DOMAIN partial THEN partial[k] ELSE state[k]]

\* Array.prototype.slice(0, n)
Slice0(s, n) == SubSeq(s, 1, Min(n, Len(s)))

\* ------------------------------------------------------------------ strings
\* String.prototype.toLowerCase on the alphabet used by the token values
LowerChar(c) ==
    CASE c = "S" -> "s"
      [] c = "O" -> "o"
      [] c = "L" -> "l"
      [] c = "W" -> "w"
      [] c = "F" -> "f"
      [] OTHER -> c

toLowerCase(s) == [i \in 1..Len(s) |-> LowerChar(s[i])]

\* String.prototype.includes
includes(s, sub) ==
    \E k \in 0..(Len(s) - Len(sub)) : SubSeq(s, k + 1, k + Len(sub)) = sub

\* -------------------------------------------------------------------- dates
\* new Date(string): the instant (in days since 2024-01-00, an abstract unit)
\* or the Invalid Date. Two spellings of one instant parse to the same value.
NewDate(str) ==
    CASE str = "2024-01-01T00:00:00Z" -> Some(1)
      [] str = "2024-01-02T00:00:00Z" -> Some(2)
      [] str = "2024-01-02" -> Some(2)
      [] str = "2024-01-03T00:00:00Z" -> Some(3)
      [] OTHER -> Undefined

\* a < b and a > b on Dates: false as soon as one side is NaN
DateLt(a, b) == IsDefined(a) /\ IsDefined(b) /\ a[1] < b[1]
DateGt(a, b) == IsDefined(a) /\ IsDefined(b) /\ a[1] > b[1]

\* ------------------------------------------------------------- trade filter
\* truthiness of an optional string: present and not ''
TruthyStatus(o) == IsDefined(o) /\ o[1] # ""
TruthyToken(o) == IsDefined(o) /\ Len(o[1]) > 0

\* the callback of trades.filter(...)
keepTrade(trade, filter) ==
    IF TruthyStatus(filter.status) /\ trade.status # filter.status[1] THEN FALSE
    ELSE IF TruthyToken(filter.token)
            /\ ~includes(toLowerCase(trade.token), toLowerCase(filter.token[1]))
         THEN FALSE
    ELSE IF IsDefined(filter.dateRange)
         THEN LET tradeDate == NewDate(trade.timestamp)
                  start == NewDate(filter.dateRange[1].start)
                  end == NewDate(filter.dateRange[1].end)
              IN IF DateLt(tradeDate, start) \/ DateGt(tradeDate, end)
                 THEN FALSE ELSE TRUE
    ELSE TRUE

\* variant: the scan starts at the second element
applyFilter_SkipsFirst(trades, filter) ==
    IF trades = <<>> THEN <<>>
    ELSE SelectSeq(Tail(trades), LAMBDA t : keepTrade(t, filter))

applyFilter(trades, filter) == SelectSeq(trades, LAMBDA t : keepTrade(t, filter))

\* ------------------------------------------------------------- trade store
tradeStoreInit == [trades |-> <<>>, filteredTrades |-> <<>>,
                   filter |-> [status |-> Undefined, token |-> Undefined,
                               dateRange |-> Undefined]]

\* variant: the filtered view is maintained incrementally, without the filter
addTrade_NoRefilter(state, trade) ==
    ZSet(state, [trades |-> <<trade>> \o state.trades,
                 filteredTrades |-> <<trade>> \o state.filteredTrades])

\* variant: a trade whose id is already in the ledger replaces that entry
addTrade_Dedup(state, trade) ==
    LET newTrades == <<trade>> \o SelectSeq(state.trades, LAMBDA t : t.id # trade.id)
    IN ZSet(state, [trades |-> newTrades,
                    filteredTrades |-> applyFilter(newTrades, state.filter)])

addTrade(state, trade) ==
    LET newTrades == <<trade>> \o state.trades
    IN ZSet(state, [trades |-> newTrades,
                    filteredTrades |-> applyFilter(newTrades, state.filter)])

\* variant: the filter is applied to the ledger itself
setFilter_MutatesLedger(state, filter) ==
    ZSet(state, [filter |-> filter,
                 trades |-> applyFilter(state.trades, filter),
                 filteredTrades |-> applyFilter(state.trades, filter)])

setFilter(state, filter) ==
    ZSet(state, [filter |-> filter,
                 filteredTrades |-> applyFilter(state.trades, filter)])

clearTrades(state) == ZSet(state, [trades |-> <<>>, filteredTrades |-> <<>>])

\* ------------------------------------------------------------- agent store
KeepPrev == 99

agentStoreInit == [activities |-> <<>>]

\* variant: nothing is evicted
addActivity_KeepAll(state, activity) ==
    ZSet(state, [activities |-> <<activity>> \o state.activities])

\* variant: the feed is kept in timestamp order, newest timestamp first
addActivity_ByTimestamp(state, activity) ==
    LET kept == Slice0(state.activities, KeepPrev)
        newer == SelectSeq(kept, LAMBDA a : a.timestamp > activity.timestamp)
        older == SelectSeq(kept, LAMBDA a : a.timestamp <= activity.timestamp)
    IN ZSet(state, [activities |-> newer \o <<activity>> \o older])

addActivity(state, activity) ==
    ZSet(state, [activities |-> <<activity>> \o Slice0(state.activities, KeepPrev)])

clearActivities(state) == ZSet(state, [activities |-> <<>>])

\* --------------------------------------------------------- portfolio store
portfolioStoreInit ==
    [portfolioValue |-> Some(0), totalPnL |-> Some(0), dailyPnL |-> Some(0),
     dailyLoss |-> Some(0), positions |-> Some(<<>>)]

\* variant: a partial patch, a key missing from the payload keeps its value
Patch(old, new) == IF IsDefined(new) THEN new ELSE old

updatePortfolio_Patch(state, data) ==
    ZSet(state, [portfolioValue |-> Patch(state.portfolioValue, data.totalValue),
                 totalPnL |-> Patch(state.totalPnL, data.totalPnL),
                 dailyPnL |-> Patch(state.dailyPnL, data.dailyPnL),
                 dailyLoss |-> Patch(state.dailyLoss, data.dailyLoss),
                 positions |-> Patch(state.positions, data.positions)])

updatePortfolio(state, data) ==
    ZSet(state, [portfolioValue |-> data.totalValue,
                 totalPnL |-> data.totalPnL,
                 dailyPnL |-> data.dailyPnL,
                 dailyLoss |-> data.dailyLoss,
                 positions |-> data.positions])

\* ------------------------------------------------------------ system store
systemStoreInit ==
    [isRunning |-> Some(FALSE), network |-> Some("devnet"),
     walletAddress |-> Some(""), cycleCount |-> Some(0),
     lastRunTime |-> Some(""), uptime |-> Some(0)]

\* variant: a partial patch, a key missing from the payload keeps its value
updateStatus_Patch(state, data) ==
    ZSet(state, [isRunning |-> Patch(state.isRunning, data.isRunning),
                 network |-> Patch(state.network, data.network),
                 walletAddress |-> Patch(state.walletAddress, data.walletAddress),
                 cycleCount |-> Patch(state.cycleCount, data.cycleCount),
                 lastRunTime |-> Patch(state.lastRunTime, data.lastRunTime),
                 uptime |-> Patch(state.uptime, data.uptime)])

updateStatus(state, data) ==
    ZSet(state, [isRunning |-> data.isRunning,
                 network |-> data.network,
                 walletAddress |-> data.walletAddress,
                 cycleCount |-> data.cycleCount,
                 lastRunTime |-> data.lastRunTime,
                 uptime |-> data.uptime])

\* ------------------------------------------------------- socket and router
EventNames == {"portfolio:update", "agent:activity", "trade:completed",
               "system:status", "cycle:complete"}

NoListeners == [name \in EventNames |-> <<>>]

\* a Socket object that io() has not created yet
NoSocket == [state |-> "absent", listeners |-> NoListeners]

\* io(SOCKET_URL, {transports}): autoConnect, so the handshake starts at once
IoCreate == [state |-> "opening", listeners |-> NoListeners]

\* socket.connected
Connected(obj) == obj.state = "open"

\* socket.connect(): a no-op on a socket that is open or opening
SocketConnect(obj) ==
    IF obj.state = "closed" THEN [obj EXCEPT !.state = "opening"] ELSE obj

\* socket.disconnect()
SocketDisconnect(obj) == [obj EXCEPT !.state = "closed"]

\* getSocket(): io() is called only when the module's handle is null; the
\* handle returned is the `socket` field of the result
getSocket(sock, n, objs) ==
    IF sock = 0
    THEN [socket |-> n + 1, nSockets |-> n + 1,
          sockObjs |-> [objs EXCEPT ![n + 1] = IoCreate]]
    ELSE [socket |-> sock, nSockets |-> n, sockObjs |-> objs]

\* a disconnectSocket that disconnects but keeps the module's handle
disconnectSocket_KeepsHandle(sock, objs, w) ==
    IF sock # 0
    THEN [socket |-> sock,
          sockObjs |-> [objs EXCEPT ![sock] = SocketDisconnect(@)],
          wire |-> [w EXCEPT ![sock] = <<>>]]
    ELSE [socket |-> sock, sockObjs |-> objs, wire |-> w]

\* disconnectSocket(): packets not yet dispatched are lost with the connection
disconnectSocket(sock, objs, w) ==
    IF sock # 0
    THEN [socket |-> 0,
          sockObjs |-> [objs EXCEPT ![sock] = SocketDisconnect(@)],
          wire |-> [w EXCEPT ![sock] = <<>>]]
    ELSE [socket |-> sock, sockObjs |-> objs, wire |-> w]

\* socket.on(name, handler): the handler is added after those already there
SocketOn(obj, name, handler) ==
    [obj EXCEPT !.listeners[name] = Append(@, handler)]

\* socket.off(name): every listener of that name is removed
SocketOff(obj, name) == [obj EXCEPT !.listeners[name] = <<>>]

\* variant: the trade handler is also registered for agent:activity
Registrations_Crossed ==
    <<[name |-> "portfolio:update", handler |-> "updatePortfolio"],
      [name |-> "agent:activity", handler |-> "addActivity"],
      [name |-> "agent:activity", handler |-> "addTrade"],
      [name |-> "trade:completed", handler |-> "addTrade"],
      [name |-> "system:status", handler |-> "updateStatus"]>>

\* the four socket.on calls of the effect, in order; a handler is named by
\* the store operation its closure calls with the payload
Registrations ==
    <<[name |-> "portfolio:update", handler |-> "updatePortfolio"],
      [name |-> "agent:activity", handler |-> "addActivity"],
      [name |-> "trade:completed", handler |-> "addTrade"],
      [name |-> "system:status", handler |-> "updateStatus"]>>

\* variant: the cleanup forgets trade:completed
Deregistrations_Partial == <<"portfolio:update", "agent:activity", "system:status">>

\* the socket.off calls of the effect's cleanup, in order
Deregistrations ==
    <<"portfolio:update", "agent:activity", "trade:completed", "system:status">>

RECURSIVE RegisterAll(_, _, _)
RegisterAll(obj, regs, i) ==
    IF i > Len(regs) THEN obj
    ELSE RegisterAll(SocketOn(obj, regs[i].name, regs[i].handler), regs, i + 1)

RECURSIVE DeregisterAll(_, _, _)
DeregisterAll(obj, names, i) ==
    IF i > Len(names) THEN obj
    ELSE DeregisterAll(SocketOff(obj, names[i]), names, i + 1)

\* one handler closure run on a payload; st holds the four stores
RunHandler(handler, data, st) ==
    CASE handler = "updatePortfolio" ->
             [st EXCEPT !.portfolio = updatePortfolio(@, data)]
      [] handler = "addActivity" ->
             [st EXCEPT !.agent = addActivity(@, data)]
      [] handler = "addTrade" ->
             [st EXCEPT !.trade = addTrade(@, data)]
      [] handler = "updateStatus" ->
             [st EXCEPT !.system = updateStatus(@, data)]

\* the emitter calls the listeners of the packet's name one after the other
RECURSIVE RunHandlers(_, _, _, _)
RunHandlers(handlers, data, st, i) ==
    IF i > Len(handlers) THEN st
    ELSE RunHandlers(handlers, data, RunHandler(handlers[i], data, st), i + 1)

\* ---------------------------------------------------------------- payloads
SOL == <<"S", "O", "L">>
WOOF == <<"W", "O", "O", "F">>
woof == <<"w", "o", "o", "f">>

TimeStrings == {"2024-01-01T00:00:00Z", "2024-01-02", "2024-01-03T00:00:00Z",
                "not-a-date"}

\* Trade (lib/types.ts): the fields the stores read; the others pass through
TradeUniverse ==
    [id : {"1"}, token : {SOL, woof},
     status : {"pending", "completed", "failed"}, timestamp : TimeStrings]

DateRanges ==
    {[start |-> "2024-01-02T00:00:00Z", end |-> "2024-01-02"],
     [start |-> "not-a-date", end |-> "2024-01-02"],
     [start |-> "2024-01-02", end |-> "not-a-date"]}

\* TradeFilter (lib/types.ts): every combination of present / absent keys
FilterUniverse ==
    [status : {Undefined, Some("pending"), Some("win")},
     token : {Undefined, Some(<<>>), Some(<<"s", "o">>), Some(<<"O", "F">>)},
     dateRange : {Undefined} \cup {Some(r) : r \in DateRanges}]

NoFilter == [status |-> Undefined, token |-> Undefined, dateRange |-> Undefined]

\* the trades the store-level specification admits: the two of the spec's
\* scenario, a second report of id "1", and one with an unparseable timestamp
Trade1 == [id |-> "1", token |-> SOL, status |-> "completed",
           timestamp |-> "2024-01-02T00:00:00Z"]
Trade2 == [id |-> "2", token |-> WOOF, status |-> "pending",
           timestamp |-> "2024-01-03T00:00:00Z"]
Trade1Pending == [id |-> "1", token |-> SOL, status |-> "pending",
                  timestamp |-> "2024-01-01T00:00:00Z"]
Trade3 == [id |-> "3", token |-> woof, status |-> "failed",
           timestamp |-> "not-a-date"]

StoreTrades == {Trade1, Trade2, Trade1Pending, Trade3}

StoreFilters ==
    {NoFilter,
     [NoFilter EXCEPT !.status = Some("pending")],
     [NoFilter EXCEPT !.status = Some("win")],
     [NoFilter EXCEPT !.token = Some(<<"s", "o">>)],
     [NoFilter EXCEPT !.status = Some("pending"), !.token = Some(<<"O", "F">>)],
     [NoFilter EXCEPT !.dateRange = Some([start |-> "2024-01-02T00:00:00Z",
                                          end |-> "2024-01-03T00:00:00Z"])],
     [NoFilter EXCEPT !.token = Some(<<"o">>),
                      !.dateRange = Some([start |-> "2024-01-01T00:00:00Z",
                                          end |-> "2024-01-02"])]}

\* AgentActivity number n of a run; its timestamp follows the run's pattern,
\* so that arrival order and timestamp order differ
TsPatterns == {"ascending", "descending", "constant"}

ActivityTs(pattern, n) ==
    CASE pattern = "ascending" -> 1000 + n
      [] pattern = "descending" -> 1000 - n
      [] OTHER -> 1000

Activity(pattern, n) ==
    [id |-> n, agent |-> "trader", action |-> "swap", message |-> "executing",
     timestamp |-> ActivityTs(pattern, n)]

Pos1 == [token |-> SOL, amount |-> 2, entryPrice |-> 100, currentPrice |-> 120,
         unrealizedPnL |-> 40, status |-> "up"]
Pos2 == [token |-> WOOF, amount |-> 10, entryPrice |-> 5, currentPrice |-> 4,
         unrealizedPnL |-> -10, status |-> "down"]

\* a payload with the keys in `omit` missing
Omit(rec, omit) == [k \in DOMAIN rec |-> IF k \in omit THEN Undefined ELSE rec[k]]

OmitSets(keys) == {{}} \cup {{k} : k \in keys} \cup {keys}

PortfolioKeys == {"totalValue", "totalPnL", "dailyPnL", "dailyLoss", "positions"}

PortfolioFull ==
    {[totalValue |-> Some(1000), totalPnL |-> Some(50), dailyPnL |-> Some(10),
      dailyLoss |-> Some(5), positions |-> Some(<<Pos1, Pos2>>),
      timestamp |-> Some("2024-01-01T00:00:00Z")],
     [totalValue |-> Some(900), totalPnL |-> Some(-50), dailyPnL |-> Some(-100),
      dailyLoss |-> Some(100), positions |-> Some(<<Pos1>>),
      timestamp |-> Some("2024-01-02T00:00:00Z")],
     [totalValue |-> Some(0), totalPnL |-> Some(0), dailyPnL |-> Some(0),
      dailyLoss |-> Some(0), positions |-> Some(<<>>),
      timestamp |-> Some("2024-01-03T00:00:00Z")]}

PortfolioData == {Omit(d, o) : d \in PortfolioFull, o \in OmitSets(PortfolioKeys)}

StatusKeys == {"isRunning", "network", "walletAddress", "cycleCount",
               "lastRunTime", "uptime"}

StatusFull ==
    {[isRunning |-> Some(TRUE), network |-> Some("devnet"),
      walletAddress |-> Some("7xKq"), cycleCount |-> Some(3),
      lastRunTime |-> Some("2024-01-02T00:00:00Z"), uptime |-> Some(60)],
     [isRunning |-> Some(FALSE), network |-> Some("mainnet"),
      walletAddress |-> Some("9zLm"), cycleCount |-> Some(4),
      lastRunTime |-> Some("2024-01-03T00:00:00Z"), uptime |-> Some(90)]}

StatusData == {Omit(d, o) : d \in StatusFull, o \in OmitSets(StatusKeys)}

\* ------------------------------------------------------------------- state
VARIABLES
    tradeStore,      \* useTradeStore: trades, filteredTrades, filter
    agentStore,      \* useAgentStore: activities
    portfolioStore,  \* usePortfolioStore
    systemStore,     \* useSystemStore
    admitted,        \* history: arguments of addTrade since the ledger was last empty
    arrived,         \* history: arguments of addActivity since the feed was last empty
    nActs,           \* history: number of addActivity calls so far
    tsPattern,       \* the timestamp pattern of this run's activity events
    prevPortfolio,   \* history: argument of the updatePortfolio call before the last
    lastPortfolio,   \* history: argument of the last updatePortfolio call
    lastStatus,      \* history: argument of the last updateStatus call
    lastOp,          \* history: the store operation called last
    lenBefore,       \* history: the ledger's length before that operation
    argTrades,       \* applyFilter called directly: its trades argument
    argFilter,       \* ... its filter argument
    result,          \* ... its result, once it has returned
    socket,          \* lib/socket.ts: the shared handle, 0 for null
    nSockets,        \* number of Socket objects io() has created
    sockObjs,        \* the Socket objects: connection state and listeners
    wire,            \* per Socket, the packets received and not yet dispatched
    mounted,         \* whether the component calling useWebSocket is mounted
    hookSock,        \* the `socket` constant the mounted effect closed over
    emitted,         \* history: number of events the server has emitted
    dispatched,      \* history: the packets taken off the wire, in order
    calls,           \* history: the store calls the last dispatch made
    reapplied,       \* applyFilter called on its own result: the second result
    threw,           \* whether the last trade-store call ended in an exception
    sockCall,        \* history: the lib/socket.ts function called last
    nCalls,          \* history: number of lib/socket.ts calls so far
    returned,        \* history: the handle the last getSocket() returned
    inflight,        \* lib/api.ts: the requests sent and not yet answered
    nReq,            \* number of api calls made so far
    nSent,           \* history: number of requests fetch has sent
    lastSent,        \* history: the request fetch sent last
    lastOutcome,     \* history: how the api call that settled last settled
    cycles,          \* ControlPanel: the `cycles` state
    interval,        \* ControlPanel: the `interval` state
    caught,          \* ControlPanel: errors its handlers caught and logged
    card,            \* PortfolioCard: what its last render read and showed
    nMissed,         \* history: events emitted while no Socket was connected
    mountedB,        \* whether a second component calling useWebSocket is mounted
    hookSockB,       \* the `socket` constant that second effect closed over
    cleanRuns        \* history: calls of the first instance's cleanup function

storeVars == <<tradeStore, agentStore, portfolioStore, systemStore>>
histVars == <<admitted, arrived, nActs, tsPattern, prevPortfolio, lastPortfolio,
              lastStatus, lastOp, lenBefore>>
pureVars == <<argTrades, argFilter, result>>
sysVars == <<socket, nSockets, sockObjs, wire, mounted, hookSock, emitted,
             dispatched, calls>>
sockApiVars == <<sockCall, nCalls, returned>>
gwVars == <<inflight, nReq, nSent, lastSent, lastOutcome, cycles, interval,
           caught>>
hookBVars == <<mountedB, hookSockB, cleanRuns>>
moreVars == <<card, nMissed, hookBVars>>
extVars == <<reapplied, threw, sockApiVars, gwVars, moreVars>>
vars == <<storeVars, histVars, pureVars, sysVars, extVars>>

\* the state after the modules are loaded (create(...) has run for each store)
InitStores ==
    /\ tradeStore = tradeStoreInit
    /\ agentStore = agentStoreInit
    /\ portfolioStore = portfolioStoreInit
    /\ systemStore = systemStoreInit

InitHist ==
    /\ admitted = <<>>
    /\ arrived = <<>>
    /\ nActs = 0
    /\ prevPortfolio = Undefined
    /\ lastPortfolio = Undefined
    /\ lastStatus = Undefined
    /\ lastOp = "none"
    /\ lenBefore = 0

\* the ControlPanel's useState initial values, and nothing called yet
InitExt ==
    /\ reapplied = Undefined
    /\ threw = FALSE
    /\ sockCall = "none"
    /\ nCalls = 0
    /\ returned = 0
    /\ inflight = {}
    /\ nReq = 0
    /\ nSent = 0
    /\ lastSent = Undefined
    /\ lastOutcome = Undefined
    /\ cycles = 1
    /\ interval = 30
    /\ caught = 0
    /\ card = Undefined
    /\ nMissed = 0
    /\ mountedB = FALSE
    /\ hookSockB = 0
    /\ cleanRuns = 0

InitPure ==
    /\ argTrades = <<>>
    /\ argFilter = NoFilter
    /\ result = Undefined

InitSys ==
    /\ socket = 0
    /\ nSockets = 0
    /\ sockObjs = [id \in 1..MaxSockets |-> NoSocket]
    /\ wire = [id \in 1..MaxSockets |-> <<>>]
    /\ mounted = FALSE
    /\ hookSock = 0
    /\ emitted = 0
    /\ dispatched = <<>>
    /\ calls = <<>>

\* ------------------------------------------- trade store, called directly
TAddTrade(trade) ==
    /\ lastOp' = "addTrade"
    /\ lenBefore' = Len(tradeStore.trades)
    /\ Len(tradeStore.trades) < MaxTrades
    /\ tradeStore' = addTrade(tradeStore, trade)
    /\ admitted' = admitted \o <<trade>>
    /\ UNCHANGED <<agentStore, portfolioStore, systemStore, arrived, nActs,
                   tsPattern, prevPortfolio, lastPortfolio, lastStatus, pureVars, extVars, sysVars>>

TSetFilter(filter) ==
    /\ lastOp' = "setFilter"
    /\ lenBefore' = Len(tradeStore.trades)
    /\ tradeStore' = setFilter(tradeStore, filter)
    /\ UNCHANGED <<agentStore, portfolioStore, systemStore, admitted, arrived, nActs,
                   tsPattern, prevPortfolio, lastPortfolio, lastStatus, pureVars, extVars, sysVars>>

TClearTrades ==
    /\ lastOp' = "clearTrades"
    /\ lenBefore' = Len(tradeStore.trades)
    /\ tradeStore' = clearTrades(tradeStore)
    /\ admitted' = <<>>
    /\ UNCHANGED <<agentStore, portfolioStore, systemStore, arrived, nActs,
                   tsPattern, prevPortfolio, lastPortfolio, lastStatus, pureVars, extVars, sysVars>>

TradeInit == InitStores /\ InitHist /\ InitPure /\ InitSys /\ InitExt /\ tsPattern = "ascending"

TradeNext ==
    \/ \E trade \in StoreTrades : TAddTrade(trade)
    \/ \E filter \in StoreFilters : TSetFilter(filter)
    \/ TClearTrades

TradeSpec == TradeInit /\ [][TradeNext]_vars

\* ------------------------------------------- agent store, called directly
FAddActivity ==
    /\ lastOp' = "addActivity"
    /\ lenBefore' = Len(tradeStore.trades)
    /\ nActs < MaxActs
    /\ LET activity == Activity(tsPattern, nActs + 1)
       IN /\ agentStore' = addActivity(agentStore, activity)
          /\ arrived' = arrived \o <<activity>>
    /\ nActs' = nActs + 1
    /\ UNCHANGED <<tradeStore, portfolioStore, systemStore, admitted, tsPattern,
                   prevPortfolio, lastPortfolio, lastStatus, pureVars, extVars, sysVars>>

FClearActivities ==
    /\ lastOp' = "clearActivities"
    /\ lenBefore' = Len(tradeStore.trades)
    /\ agentStore' = clearActivities(agentStore)
    /\ arrived' = <<>>
    /\ UNCHANGED <<tradeStore, portfolioStore, systemStore, admitted, nActs,
                   tsPattern, prevPortfolio, lastPortfolio, lastStatus, pureVars, extVars, sysVars>>

FeedInit == InitStores /\ InitHist /\ InitPure /\ InitSys /\ InitExt /\ tsPattern \in TsPatterns

FeedNext == FAddActivity \/ FClearActivities

FeedSpec == FeedInit /\ [][FeedNext]_vars

\* ------------------------- portfolio and system stores, called directly
SUpdatePortfolio(data) ==
    /\ lastOp' = "updatePortfolio"
    /\ lenBefore' = Len(tradeStore.trades)
    /\ portfolioStore' = updatePortfolio(portfolioStore, data)
    /\ prevPortfolio' = lastPortfolio
    /\ lastPortfolio' = Some(data)
    /\ UNCHANGED <<tradeStore, agentStore, systemStore, admitted, arrived, nActs,
                   tsPattern, lastStatus, pureVars, extVars, sysVars>>

SUpdateStatus(data) ==
    /\ lastOp' = "updateStatus"
    /\ lenBefore' = Len(tradeStore.trades)
    /\ systemStore' = updateStatus(systemStore, data)
    /\ lastStatus' = Some(data)
    /\ UNCHANGED <<tradeStore, agentStore, portfolioStore, admitted, arrived,
                   nActs, tsPattern, prevPortfolio, lastPortfolio, pureVars, extVars, sysVars>>

SnapshotInit == InitStores /\ InitHist /\ InitPure /\ InitSys /\ InitExt /\ tsPattern = "ascending"

SnapshotNext ==
    \/ \E data \in PortfolioData : SUpdatePortfolio(data)
    \/ \E data \in StatusData : SUpdateStatus(data)

SnapshotSpec == SnapshotInit /\ [][SnapshotNext]_vars

\* --------------------------------------------- applyFilter, called directly
RECURSIVE SeqsUpTo(_, _)
SeqsUpTo(S, n) ==
    IF n = 0 THEN {<<>>}
    ELSE LET shorter == SeqsUpTo(S, n - 1)
         IN shorter \cup {<<x>> \o s : x \in S, s \in {t \in shorter : Len(t) = n - 1}}

PApply ==
    /\ result = Undefined
    /\ result' = Some(applyFilter(argTrades, argFilter))
    /\ UNCHANGED <<storeVars, histVars, argTrades, argFilter, sysVars, extVars>>

FilterInit ==
    /\ InitStores /\ InitHist /\ InitSys /\ InitExt /\ tsPattern = "ascending"
    /\ argTrades \in SeqsUpTo(TradeUniverse, MaxFilterLen)
    /\ argFilter \in FilterUniverse
    /\ result = Undefined

\* applyFilter called again, on what it returned, with the same filter
PReapply ==
    /\ result # Undefined
    /\ reapplied = Undefined
    /\ reapplied' = Some(applyFilter(result[1], argFilter))
    /\ UNCHANGED <<storeVars, histVars, pureVars, sysVars, threw, sockApiVars, gwVars,
                   moreVars>>

FilterNext == PApply \/ PReapply

FilterSpec == FilterInit /\ [][FilterNext]_vars

\* ------------------------------------------------- the streaming path
\* the payloads the server emits, by event name; n numbers the emission
Payloads(name, n) ==
    CASE name = "portfolio:update" ->
             {Omit(d, {}) : d \in {f \in PortfolioFull : f.totalValue = Some(1000)}}
                 \cup {Omit(d, {"positions"}) :
                          d \in {f \in PortfolioFull : f.totalValue = Some(900)}}
      [] name = "agent:activity" -> {Activity("descending", n)}
      [] name = "trade:completed" -> {Trade1, Trade2}
      [] name = "system:status" ->
             {Omit(d, o) : d \in {f \in StatusFull : f.isRunning = Some(TRUE)},
                           o \in {{}, {"isRunning"}}}
      [] OTHER -> {[cycle |-> n]}

\* the useEffect body of useWebSocket, run when the component mounts
HookEffect ==
    /\ ~mounted
    /\ socket = 0 => nSockets < MaxSockets
    /\ LET m == getSocket(socket, nSockets, sockObjs)
           id == m.socket
           registered == RegisterAll(m.sockObjs[id], Registrations, 1)
           obj == IF ~Connected(registered) THEN SocketConnect(registered)
                  ELSE registered
       IN /\ socket' = id
          /\ nSockets' = m.nSockets
          /\ sockObjs' = [m.sockObjs EXCEPT ![id] = obj]
          /\ hookSock' = id
    /\ mounted' = TRUE
    /\ UNCHANGED <<storeVars, histVars, pureVars, extVars, wire, emitted, dispatched, calls>>

\* a cleanup that forgets the component but leaves its listeners on the socket
HookCleanup_KeepsListeners ==
    /\ mounted
    /\ mounted' = FALSE
    /\ UNCHANGED <<storeVars, histVars, pureVars, extVars, socket, nSockets, sockObjs,
                   wire, hookSock, emitted, dispatched, calls>>

\* the cleanup the effect returned, run when the component unmounts
HookCleanup ==
    /\ mounted
    /\ sockObjs' = [sockObjs EXCEPT
                       ![hookSock] = DeregisterAll(@, Deregistrations, 1)]
    /\ mounted' = FALSE
    /\ UNCHANGED <<storeVars, histVars, pureVars, extVars, socket, nSockets, wire, hookSock,
                   emitted, dispatched, calls>>

\* disconnectSocket(): packets not yet dispatched are lost with the connection
DisconnectSocket ==
    /\ LET m == disconnectSocket(socket, sockObjs, wire)
       IN /\ socket' = m.socket
          /\ sockObjs' = m.sockObjs
          /\ wire' = m.wire
    /\ UNCHANGED <<storeVars, histVars, pureVars, extVars, nSockets, mounted, hookSock,
                   emitted, dispatched, calls>>

\* the handshake of an opening socket completes
ConnectionOpens(id) ==
    /\ sockObjs[id].state = "opening"
    /\ sockObjs' = [sockObjs EXCEPT ![id].state = "open"]
    /\ UNCHANGED <<storeVars, histVars, pureVars, extVars, socket, nSockets, wire, mounted,
                   hookSock, emitted, dispatched, calls>>

\* the server emits one event: it reaches the sockets that are connected, and
\* no one else
ServerEmit(name, data) ==
    /\ emitted < MaxEmits
    /\ emitted' = emitted + 1
    /\ wire' = [id \in 1..MaxSockets |->
                   IF Connected(sockObjs[id])
                   THEN Append(wire[id], [name |-> name, data |-> data])
                   ELSE wire[id]]
    /\ UNCHANGED <<storeVars, histVars, pureVars, extVars, socket, nSockets, sockObjs, mounted,
                   hookSock, dispatched, calls>>

\* the socket takes the next packet off the wire and calls the listeners
\* registered for its name, each once, in registration order
Deliver(id) ==
    /\ wire[id] # <<>>
    /\ LET packet == Head(wire[id])
           handlers == sockObjs[id].listeners[packet.name]
           before == [trade |-> tradeStore, agent |-> agentStore,
                      portfolio |-> portfolioStore, system |-> systemStore]
           after == RunHandlers(handlers, packet.data, before, 1)
       IN /\ tradeStore' = after.trade
          /\ agentStore' = after.agent
          /\ portfolioStore' = after.portfolio
          /\ systemStore' = after.system
          /\ dispatched' = Append(dispatched,
                 [name |-> packet.name, data |-> packet.data,
                  registered |-> mounted /\ hookSock = id])
          /\ calls' = handlers
    /\ wire' = [wire EXCEPT ![id] = Tail(@)]
    /\ UNCHANGED <<histVars, pureVars, extVars, socket, nSockets, sockObjs, mounted, hookSock,
                   emitted>>

Init == InitStores /\ InitHist /\ InitPure /\ InitSys /\ InitExt /\ tsPattern = "descending"

Next ==
    \/ HookEffect
    \/ HookCleanup
    \/ DisconnectSocket
    \/ \E id \in 1..MaxSockets : ConnectionOpens(id)
    \/ \E name \in EventNames : \E data \in Payloads(name, emitted + 1) :
           ServerEmit(name, data)
    \/ \E id \in 1..MaxSockets : Deliver(id)

Spec == Init /\ [][Next]_vars

\* ------------------------------------ the trade store, malformed payloads
\* a 'trade:completed' payload that lacks the token field; the handler passes
\* it to addTrade as it came
MalformedTrade ==
    [id |-> "4", status |-> "pending", timestamp |-> "2024-01-03T00:00:00Z"]

MixedTrades == {MalformedTrade, Trade1, Trade2}

MixedFilters ==
    {NoFilter,
     [NoFilter EXCEPT !.token = Some(<<"s", "o">>)],
     [NoFilter EXCEPT !.status = Some("win")],
     [NoFilter EXCEPT !.status = Some("win"), !.token = Some(<<"O", "F">>)]}

\* the filter callback throws: the status test has not returned, filter.token
\* is truthy, and trade.token is undefined, so .toLowerCase() is a TypeError
keepThrows(trade, filter) ==
    /\ ~(TruthyStatus(filter.status) /\ trade.status # filter.status[1])
    /\ TruthyToken(filter.token)
    /\ "token" \notin DOMAIN trade

\* trades.filter(...) throws as soon as its callback does
applyFilterThrows(trades, filter) ==
    \E i \in 1..Len(trades) : keepThrows(trades[i], filter)

\* addTrade: when the updater passed to set() throws, the exception leaves
\* addTrade and the state stays as it was
addTradeOrThrow(state, trade) ==
    IF applyFilterThrows(<<trade>> \o state.trades, state.filter)
    THEN [state |-> state, threw |-> TRUE]
    ELSE [state |-> addTrade(state, trade), threw |-> FALSE]

\* setFilter, likewise
setFilterOrThrow(state, filter) ==
    IF applyFilterThrows(state.trades, filter)
    THEN [state |-> state, threw |-> TRUE]
    ELSE [state |-> setFilter(state, filter), threw |-> FALSE]

MAddTrade(trade) ==
    /\ Len(tradeStore.trades) < MaxTrades
    /\ LET r == addTradeOrThrow(tradeStore, trade)
       IN /\ tradeStore' = r.state
          /\ threw' = r.threw
          /\ admitted' = IF r.threw THEN admitted ELSE Append(admitted, trade)
    /\ lastOp' = IF trade = MalformedTrade THEN "addTrade:malformed" ELSE "addTrade"
    /\ lenBefore' = Len(tradeStore.trades)
    /\ UNCHANGED <<agentStore, portfolioStore, systemStore, arrived, nActs,
                   tsPattern, prevPortfolio, lastPortfolio, lastStatus, pureVars,
                   sysVars, reapplied, sockApiVars, gwVars,
                   moreVars>>

MSetFilter(filter) ==
    /\ LET r == setFilterOrThrow(tradeStore, filter)
       IN /\ tradeStore' = r.state
          /\ threw' = r.threw
    /\ lastOp' = "setFilter"
    /\ lenBefore' = Len(tradeStore.trades)
    /\ UNCHANGED <<agentStore, portfolioStore, systemStore, admitted, arrived, nActs,
                   tsPattern, prevPortfolio, lastPortfolio, lastStatus, pureVars,
                   sysVars, reapplied, sockApiVars, gwVars,
                   moreVars>>

MClearTrades ==
    /\ tradeStore.trades # <<>>
    /\ tradeStore' = clearTrades(tradeStore)
    /\ threw' = FALSE
    /\ admitted' = <<>>
    /\ lastOp' = "clearTrades"
    /\ lenBefore' = Len(tradeStore.trades)
    /\ UNCHANGED <<agentStore, portfolioStore, systemStore, arrived, nActs,
                   tsPattern, prevPortfolio, lastPortfolio, lastStatus, pureVars,
                   sysVars, reapplied, sockApiVars, gwVars,
                   moreVars>>

MalformedNext ==
    \/ \E trade \in MixedTrades : MAddTrade(trade)
    \/ \E filter \in MixedFilters : MSetFilter(filter)
    \/ MClearTrades

MalformedSpec == TradeInit /\ [][MalformedNext]_vars

\* ------------------------------------- lib/socket.ts, called by any consumer
\* a consumer calls getSocket() and keeps the handle it returns
CGetSocket ==
    /\ nCalls < MaxCalls
    /\ socket = 0 => nSockets < MaxSockets
    /\ LET m == getSocket(socket, nSockets, sockObjs)
       IN /\ socket' = m.socket
          /\ nSockets' = m.nSockets
          /\ sockObjs' = m.sockObjs
          /\ returned' = m.socket
    /\ sockCall' = "getSocket"
    /\ nCalls' = nCalls + 1
    /\ UNCHANGED <<storeVars, histVars, pureVars, wire, mounted, hookSock, emitted,
                   dispatched, calls, reapplied, threw, gwVars, moreVars>>

\* a consumer calls disconnectSocket()
CDisconnectSocket ==
    /\ nCalls < MaxCalls
    /\ LET m == disconnectSocket(socket, sockObjs, wire)
       IN /\ socket' = m.socket
          /\ sockObjs' = m.sockObjs
          /\ wire' = m.wire
    /\ sockCall' = "disconnectSocket"
    /\ nCalls' = nCalls + 1
    /\ UNCHANGED <<storeVars, histVars, pureVars, nSockets, mounted, hookSock,
                   emitted, dispatched, calls, reapplied, threw, returned, gwVars,
                   moreVars>>

\* a consumer that kept the handle a getSocket() call returned runs
\* `if (!socket.connected) socket.connect()` on it, as the hook's effect does
CHeldConnect(id) ==
    /\ id \in 1..nSockets
    /\ ~Connected(sockObjs[id])
    /\ sockObjs' = [sockObjs EXCEPT ![id] = SocketConnect(@)]
    /\ UNCHANGED <<storeVars, histVars, pureVars, extVars, socket, nSockets, wire,
                   mounted, hookSock, emitted, dispatched, calls>>

SocketNext ==
    \/ CGetSocket
    \/ CDisconnectSocket
    \/ \E id \in 1..MaxSockets : CHeldConnect(id)
    \/ HookEffect
    \/ HookCleanup
    \/ \E id \in 1..MaxSockets : ConnectionOpens(id)

SocketSpec == Init /\ [][SocketNext]_vars

\* ------------------------------------------- lib/api.ts and ControlPanel
ReadOps == {"getPortfolio", "getStatus", "getTrades", "getAgents"}

\* what an <input type="number"> can hand to onChange: min and max do not
\* restrict typing, and an emptied or unparseable field has the value ""
TypedCycles == {"", "-1", "5"}
TypedIntervals == {"", "60"}

\* Number(e.target.value)
Number(text) ==
    CASE text = "" -> 0
      [] text = "-1" -> 0 - 1
      [] text = "5" -> 5
      [] text = "60" -> 60

\* the request each api method hands to fetch
Request(op, c, i) ==
    CASE op = "getPortfolio" -> [method |-> "GET", path |-> "/portfolio", body |-> Undefined]
      [] op = "getStatus" -> [method |-> "GET", path |-> "/status", body |-> Undefined]
      [] op = "getTrades" -> [method |-> "GET", path |-> "/trades", body |-> Undefined]
      [] op = "getAgents" -> [method |-> "GET", path |-> "/agents", body |-> Undefined]
      [] op = "startTrading" ->
             [method |-> "POST", path |-> "/start",
              body |-> Some([cycles |-> c, interval_seconds |-> i])]
      [] op = "stopTrading" -> [method |-> "POST", path |-> "/stop", body |-> Undefined]
      [] op = "runCycle" -> [method |-> "POST", path |-> "/cycle", body |-> Undefined]

\* what can come back: fetch rejects (no response), or a response arrives
\* with a status and a body text
Bodies == {"{\"status\":\"ok\"}", ""}

Responses ==
    {[arrived |-> FALSE, ok |-> FALSE, body |-> ""]}
        \cup {[arrived |-> TRUE, ok |-> FALSE, body |-> "{\"status\":\"ok\"}"]}
        \cup [arrived : {TRUE}, ok : {TRUE}, body : Bodies]

\* res.json(): the parsed value, or Undefined where parsing throws
JsonParse(text) ==
    IF text = "{\"status\":\"ok\"}" THEN Some([status |-> "ok"]) ELSE Undefined

\* variant: the response's status is not looked at
settle_IgnoresStatus(resp) ==
    IF ~resp.arrived THEN [result |-> "rejected", value |-> Undefined]
    ELSE IF JsonParse(resp.body) = Undefined
         THEN [result |-> "rejected", value |-> Undefined]
         ELSE [result |-> "resolved", value |-> JsonParse(resp.body)]

\* how the promise of an api method settles: await fetch, the res.ok test,
\* then res.json()
settle(resp) ==
    IF ~resp.arrived THEN [result |-> "rejected", value |-> Undefined]
    ELSE IF ~resp.ok THEN [result |-> "rejected", value |-> Undefined]
    ELSE IF JsonParse(resp.body) = Undefined
         THEN [result |-> "rejected", value |-> Undefined]
         ELSE [result |-> "resolved", value |-> JsonParse(resp.body)]

\* variant: the panel marks the system as running once start has resolved
onSettled_Optimistic(req, out, st) ==
    IF req.op = "startTrading" /\ out.result = "resolved"
    THEN [st EXCEPT !.system.isRunning = Some(TRUE)]
    ELSE st

\* what the caller does to the stores once its call has settled: the panel's
\* handlers await and catch, the SWR hooks keep the data in SWR; no store call
onSettled(req, out, st) == st

\* `disabled={isRunning}`
Truthy(o) == o # Undefined /\ o[1]

\* fetch is called once, and the caller is suspended at the await; `at` notes,
\* for a start call, how many events had been dispatched when it was made
Call(op, by) ==
    /\ nReq < MaxRequests
    /\ nReq' = nReq + 1
    /\ nSent' = nSent + 1
    /\ lastSent' = Some([call |-> nReq + 1] @@ Request(op, cycles, interval))
    /\ inflight' = inflight \cup
           {[call |-> nReq + 1, op |-> op, by |-> by,
             at |-> IF op = "startTrading" THEN Len(dispatched) ELSE 0]}
    /\ UNCHANGED <<storeVars, histVars, pureVars, sysVars, reapplied, threw,
                   sockApiVars, lastOutcome, cycles, interval, caught, moreVars>>

\* onChange of the cycles input
SetCycles(text) ==
    /\ cycles' = Number(text)
    /\ UNCHANGED <<storeVars, histVars, pureVars, sysVars, reapplied, threw,
                   sockApiVars, inflight, nReq, nSent, lastSent, lastOutcome, interval,
                   caught, moreVars>>

\* onChange of the interval input
SetInterval(text) ==
    /\ interval' = Number(text)
    /\ UNCHANGED <<storeVars, histVars, pureVars, sysVars, reapplied, threw,
                   sockApiVars, inflight, nReq, nSent, lastSent, lastOutcome, cycles,
                   caught, moreVars>>

\* the Start button, enabled while isRunning is falsy
HandleStart == ~Truthy(systemStore.isRunning) /\ Call("startTrading", "panel")

\* the Stop button, enabled while isRunning is truthy
HandleStop == Truthy(systemStore.isRunning) /\ Call("stopTrading", "panel")

\* the Run Cycle button, enabled while isRunning is truthy
HandleCycle == Truthy(systemStore.isRunning) /\ Call("runCycle", "panel")

\* SWR calls the fetcher of one of the four read hooks
SwrFetch(op) == Call(op, "swr")

\* a request in flight is answered, or fails; the suspended caller resumes
Respond(req, resp) ==
    /\ req \in inflight
    /\ inflight' = inflight \ {req}
    /\ LET out == settle(resp)
           before == [trade |-> tradeStore, agent |-> agentStore,
                      portfolio |-> portfolioStore, system |-> systemStore]
           after == onSettled(req, out, before)
       IN /\ lastOutcome' = Some([call |-> req.call, op |-> req.op, by |-> req.by,
                                  response |-> resp, result |-> out.result,
                                  value |-> out.value])
          /\ caught' = IF req.by = "panel" /\ out.result = "rejected"
                       THEN caught + 1 ELSE caught
          /\ tradeStore' = after.trade
          /\ agentStore' = after.agent
          /\ portfolioStore' = after.portfolio
          /\ systemStore' = after.system
    /\ UNCHANGED <<histVars, pureVars, sysVars, reapplied, threw, sockApiVars,
                   nReq, nSent, lastSent, cycles, interval,
                   moreVars>>

\* the server emits a status snapshot
GServerEmit(data) == emitted < MaxGwEmits /\ ServerEmit("system:status", data)

\* variant: no packet is dispatched while a call is awaiting its response
DispatchReady_AfterCalls(id) == wire[id] # <<>> /\ inflight = {}

\* a packet on the wire is dispatched as soon as the thread is free; a call
\* suspended at its await does not hold the thread
DispatchReady(id) == wire[id] # <<>>

GDeliver(id) == DispatchReady(id) /\ Deliver(id)

GatewayNext ==
    \/ HandleStart
    \/ HandleStop
    \/ HandleCycle
    \/ \E op \in ReadOps : SwrFetch(op)
    \/ \E req \in inflight : \E resp \in Responses : Respond(req, resp)
    \/ HookEffect
    \/ \E id \in 1..MaxSockets : ConnectionOpens(id)
    \/ \E data \in StatusFull : GServerEmit(data)
    \/ \E id \in 1..MaxSockets : GDeliver(id)

GatewaySpec == Init /\ [][GatewayNext]_vars

\* the ControlPanel's inputs and its Start button
PanelNext ==
    \/ \E text \in TypedCycles : SetCycles(text)
    \/ \E text \in TypedIntervals : SetInterval(text)
    \/ HandleStart
    \/ \E req \in inflight : \E resp \in Responses : Respond(req, resp)

PanelSpec == Init /\ [][PanelNext]_vars

\* ----------------------------------------------------------- TradeTable
\* the values of the status <Select>
SelectItems == {"all", "win", "loss", "pending"}

\* handleFilterChange: the filter the Filter button hands to setFilter
handleFilterChange(searchToken, statusFilter) ==
    [status |-> IF statusFilter # "all" THEN Some(statusFilter) ELSE Undefined,
     token |-> IF Len(searchToken) > 0 THEN Some(searchToken) ELSE Undefined,
     dateRange |-> Undefined]

\* ------------------------------------------------------- PortfolioCard
\* `x >= n` in JavaScript: undefined converts to NaN, and the test is false
GreaterEq(o, n) == IsDefined(o) /\ o[1] >= n

\* variant: a total of exactly zero counts as down
pnlColor_Strict(totalPnL) == IF GreaterEq(totalPnL, 1) THEN "up" ELSE "down"

\* const pnlColor = totalPnL >= 0 ? 'up' : 'down'
pnlColor(totalPnL) == IF GreaterEq(totalPnL, 0) THEN "up" ELSE "down"

\* the component function runs: it reads the store and computes the trend it
\* passes to the Total Value and Total P&L boxes
RenderCard ==
    /\ card' = Some([totalPnL |-> portfolioStore.totalPnL,
                     trend |-> pnlColor(portfolioStore.totalPnL)])
    /\ UNCHANGED <<storeVars, histVars, pureVars, sysVars, reapplied, threw,
                   sockApiVars, gwVars, nMissed, hookBVars>>

CardNext ==
    \/ \E data \in PortfolioData : SUpdatePortfolio(data)
    \/ RenderCard

CardSpec == SnapshotInit /\ [][CardNext]_vars

\* ------------------------------- releasing and re-acquiring the connection
\* variant: the server keeps packets for sockets that are not connected
Broadcast_Buffered(objs, w, packet) ==
    [id \in DOMAIN w |-> IF objs[id].state # "absent"
                         THEN Append(w[id], packet) ELSE w[id]]

\* an emission reaches the sockets connected at that moment, and no one else
Broadcast(objs, w, packet) ==
    [id \in DOMAIN w |-> IF Connected(objs[id])
                         THEN Append(w[id], packet) ELSE w[id]]

\* some Socket object is connected
Live(objs) == \E id \in DOMAIN objs : Connected(objs[id])

\* the server emits one event; nMissed counts the emissions made while no
\* connection was live
REmit(name, data) ==
    /\ emitted < MaxRelEmits
    /\ emitted' = emitted + 1
    /\ wire' = Broadcast(sockObjs, wire, [name |-> name, data |-> data])
    /\ nMissed' = IF Live(sockObjs) THEN nMissed ELSE nMissed + 1
    /\ UNCHANGED <<storeVars, histVars, pureVars, socket, nSockets, sockObjs,
                   mounted, hookSock, dispatched, calls, reapplied, threw,
                   sockApiVars, gwVars, card, hookBVars>>

ReleaseNext ==
    \/ HookEffect
    \/ HookCleanup
    \/ CGetSocket
    \/ CDisconnectSocket
    \/ \E id \in 1..MaxSockets : ConnectionOpens(id)
    \/ \E name \in EventNames : \E data \in Payloads(name, emitted + 1) :
           REmit(name, data)
    \/ \E id \in 1..MaxSockets : Deliver(id)

ReleaseSpec == Init /\ [][ReleaseNext]_vars

\* ------------------------------------ two components calling useWebSocket
\* the useEffect body of useWebSocket in a second component
HookEffectB ==
    /\ ~mountedB
    /\ socket = 0 => nSockets < MaxSockets
    /\ LET m == getSocket(socket, nSockets, sockObjs)
           id == m.socket
           registered == RegisterAll(m.sockObjs[id], Registrations, 1)
           obj == IF ~Connected(registered) THEN SocketConnect(registered)
                  ELSE registered
       IN /\ socket' = id
          /\ nSockets' = m.nSockets
          /\ sockObjs' = [m.sockObjs EXCEPT ![id] = obj]
          /\ hookSockB' = id
    /\ mountedB' = TRUE
    /\ UNCHANGED <<storeVars, histVars, pureVars, wire, mounted, hookSock,
                   emitted, dispatched, calls, reapplied, threw, sockApiVars,
                   gwVars, card, nMissed, cleanRuns>>

\* the cleanup of the second component's effect
HookCleanupB ==
    /\ mountedB
    /\ sockObjs' = [sockObjs EXCEPT
                       ![hookSockB] = DeregisterAll(@, Deregistrations, 1)]
    /\ mountedB' = FALSE
    /\ UNCHANGED <<storeVars, histVars, pureVars, socket, nSockets, wire,
                   mounted, hookSock, emitted, dispatched, calls, reapplied,
                   threw, sockApiVars, gwVars, card, nMissed, hookSockB,
                   cleanRuns>>

\* variant: each socket.off(name) of the cleanup removes one listener only
SocketOffCleanup_RemovesOne(obj, times) ==
    LET RECURSIVE Run(_, _)
        Named(n) == \E k \in DOMAIN Deregistrations : Deregistrations[k] = n
        DropOne(o) ==
            [o EXCEPT !.listeners =
                [n \in EventNames |->
                    IF Named(n) /\ o.listeners[n] # <<>>
                    THEN Tail(o.listeners[n]) ELSE o.listeners[n]]]
        Run(o, t) == IF t = 0 THEN o ELSE Run(DropOne(o), t - 1)
    IN Run(obj, times)

\* the cleanup function called `times` times in a row on the Socket object
\* its effect closed over
SocketOffCleanup(obj, times) ==
    LET RECURSIVE Run(_, _)
        Run(o, t) == IF t = 0 THEN o
                     ELSE Run(DeregisterAll(o, Deregistrations, 1), t - 1)
    IN Run(obj, times)

\* the first component's cleanup function is called, once or twice in a row,
\* at any moment after its effect has run
CleanupRuns(times) ==
    /\ hookSock # 0
    /\ cleanRuns + times <= MaxCleanRuns
    /\ sockObjs' = [sockObjs EXCEPT ![hookSock] = SocketOffCleanup(@, times)]
    /\ mounted' = FALSE
    /\ cleanRuns' = cleanRuns + times
    /\ UNCHANGED <<storeVars, histVars, pureVars, socket, nSockets, wire,
                   hookSock, emitted, dispatched, calls, reapplied, threw,
                   sockApiVars, gwVars, card, nMissed, mountedB, hookSockB>>

TwoHookNext ==
    \/ HookEffect
    \/ HookCleanup
    \/ HookEffectB
    \/ HookCleanupB
    \/ \E times \in 1..2 : CleanupRuns(times)
    \/ \E id \in 1..MaxSockets : ConnectionOpens(id)
    \/ \E name \in EventNames : \E data \in Payloads(name, emitted + 1) :
           REmit(name, data)
    \/ \E id \in 1..MaxSockets : Deliver(id)

TwoHookSpec == Init /\ [][TwoHookNext]_vars

\* ================================================================== claims
FeedCap == 100

PendingFilter == [NoFilter EXCEPT !.status = Some("pending")]

\* C1: in every state reachable by addTrade, setFilter and clearTrades, the
\* store's filteredTrades is applyFilter of its current trades and filter.
C1_FilteredViewConsistent ==
    tradeStore.filteredTrades = applyFilter(tradeStore.trades, tradeStore.filter)

C1_Witness ==
    /\ lastOp = "addTrade"
    /\ tradeStore.filter = PendingFilter
    /\ Len(tradeStore.trades) = 3
    /\ Len(tradeStore.filteredTrades) = 1

\* The predicates of a filter, as the specification states them: an absent
\* predicate is satisfied; status is equality; token is a case-insensitive
\* substring; the date range is inclusive membership of the parsed instant.
StatusSatisfied(t, F) == IsDefined(F.status) => t.status = F.status[1]

ContainsIgnoringCase(str, sub) ==
    \E k \in 0..(Len(str) - Len(sub)) :
        \A j \in 1..Len(sub) : LowerChar(str[k + j]) = LowerChar(sub[j])

TokenSatisfied(t, F) == IsDefined(F.token) => ContainsIgnoringCase(t.token, F.token[1])

WithinRange(ts, r) ==
    LET t == NewDate(ts)
        lo == NewDate(r.start)
        hi == NewDate(r.end)
    IN /\ IsDefined(t) /\ IsDefined(lo) /\ IsDefined(hi)
       /\ lo[1] <= t[1]
       /\ t[1] <= hi[1]

DateSatisfied(t, F) == IsDefined(F.dateRange) => WithinRange(t.timestamp, F.dateRange[1])

Satisfies(t, F) == StatusSatisfied(t, F) /\ TokenSatisfied(t, F) /\ DateSatisfied(t, F)

\* the subsequence of T at the indices whose trade satisfies F, in T's order
RECURSIVE SubsequenceFrom(_, _, _)
SubsequenceFrom(T, F, i) ==
    IF i > Len(T) THEN <<>>
    ELSE (IF Satisfies(T[i], F) THEN <<T[i]>> ELSE <<>>) \o SubsequenceFrom(T, F, i + 1)

\* C2: applyFilter(T, F) is exactly the subsequence of T whose trades satisfy
\* all present predicates of F (status equality, case-insensitive token
\* substring, timestamp within the inclusive date range).
C2_FilterExact ==
    IsDefined(result) => result[1] = SubsequenceFrom(argTrades, argFilter, 1)

\* All three instants of a date comparison parse.
DatesParse(T, F) ==
    IsDefined(F.dateRange) =>
        /\ IsDefined(NewDate(F.dateRange[1].start))
        /\ IsDefined(NewDate(F.dateRange[1].end))
        /\ \A i \in 1..Len(T) : IsDefined(NewDate(T[i].timestamp))

\* Where every instant parses, applyFilter is the exact subsequence.
FilterExactWhenDatesParse ==
    (IsDefined(result) /\ DatesParse(argTrades, argFilter))
        => result[1] = SubsequenceFrom(argTrades, argFilter, 1)

\* C3: in every state reachable by addActivity and clearActivities the feed
\* holds at most 100 entries.
C3_FeedBounded == Len(agentStore.activities) <= FeedCap

C3_Witness ==
    /\ lastOp = "addActivity"
    /\ Len(arrived) > FeedCap
    /\ Len(agentStore.activities) = FeedCap

\* the last n elements of s
LastN(s, n) == SubSeq(s, Len(s) - n + 1, Len(s))

\* C4: after N addActivity calls on an empty feed the feed is the last
\* min(N, 100) events, newest first, whatever their timestamps; for ids
\* 1..101 it has length 100, its last element has id 2 and its first id 101.
C4_FeedNewestFirst ==
    /\ agentStore.activities = Reverse(LastN(arrived, Min(Len(arrived), FeedCap)))
    /\ (Len(arrived) = 101 /\ \A i \in 1..101 : arrived[i].id = i)
          => /\ Len(agentStore.activities) = 100
             /\ agentStore.activities[100].id = 2
             /\ agentStore.activities[1].id = 101

C4_Witness ==
    /\ lastOp = "addActivity"
    /\ tsPattern = "descending"
    /\ Len(arrived) = 101
    /\ \A i \in 1..101 : arrived[i].id = i
    /\ agentStore.activities[1].timestamp < agentStore.activities[100].timestamp

\* C5 as stated: no step of the trade store decreases the number of trades.
C5_CountNeverDecreases ==
    [][Len(tradeStore'.trades) >= Len(tradeStore.trades)]_vars

\* C5 (amended): no step other than a clearTrades call decreases the number of
\* trades: addTrade adds exactly one, setFilter leaves the ledger as it is, and
\* clearTrades empties it.
C5_CountDecreasesOnlyOnClear ==
    [][/\ lastOp' = "addTrade"
            => Len(tradeStore'.trades) = Len(tradeStore.trades) + 1
       /\ lastOp' = "setFilter" => tradeStore'.trades = tradeStore.trades
       /\ lastOp' = "clearTrades" => tradeStore'.trades = <<>>]_vars

C5_Witness ==
    /\ lastOp = "clearTrades"
    /\ lenBefore = 3
    /\ tradeStore.trades = <<>>

\* C6: addTrade prepends without deduplication: after addTrade(t1..tn) on an
\* empty ledger trades is [tn, ..., t1], also when two trades share an id, and
\* under the filter {status: pending} the view is the pending ones in order.
C6_PrependNoDedup ==
    /\ tradeStore.trades = Reverse(admitted)
    /\ Len(tradeStore.trades) = Len(admitted)
    /\ tradeStore.filter = PendingFilter
          => tradeStore.filteredTrades
                 = SelectSeq(Reverse(admitted), LAMBDA t : t.status = "pending")

C6_Witness ==
    /\ lastOp = "addTrade"
    /\ admitted = <<Trade1Pending, Trade1, Trade2>>
    /\ tradeStore.trades = <<Trade2, Trade1, Trade1Pending>>
    /\ tradeStore.filter = PendingFilter
    /\ tradeStore.filteredTrades = <<Trade2, Trade1Pending>>

\* C7: after updatePortfolio(d1) then updatePortfolio(d2) the five fields of
\* the portfolio container are exactly those of d2 (a key d2 lacks reads
\* undefined); nothing of d1 remains.
C7_PortfolioReplaced ==
    IsDefined(lastPortfolio) =>
        LET d2 == lastPortfolio[1]
        IN /\ portfolioStore.portfolioValue = d2.totalValue
           /\ portfolioStore.totalPnL = d2.totalPnL
           /\ portfolioStore.dailyPnL = d2.dailyPnL
           /\ portfolioStore.dailyLoss = d2.dailyLoss
           /\ portfolioStore.positions = d2.positions

C7_Witness ==
    /\ lastOp = "updatePortfolio"
    /\ IsDefined(prevPortfolio)
    /\ IsDefined(lastPortfolio)
    /\ prevPortfolio[1].totalPnL = Some(50)
    /\ prevPortfolio[1].positions = Some(<<Pos1, Pos2>>)
    /\ lastPortfolio[1].totalPnL = Undefined
    /\ lastPortfolio[1].positions = Some(<<Pos1>>)
    /\ portfolioStore.totalPnL = Undefined
    /\ portfolioStore.positions = Some(<<Pos1>>)

\* C8: the status container starts as {isRunning: false, network: devnet,
\* walletAddress: '', cycleCount: 0, lastRunTime: '', uptime: 0}, and after
\* any updateStatus(s) its six fields are those of s, a key s omits included.
C8_StatusReplaced ==
    /\ ~IsDefined(lastStatus) =>
           /\ systemStore.isRunning = Some(FALSE)
           /\ systemStore.network = Some("devnet")
           /\ systemStore.walletAddress = Some("")
           /\ systemStore.cycleCount = Some(0)
           /\ systemStore.lastRunTime = Some("")
           /\ systemStore.uptime = Some(0)
    /\ IsDefined(lastStatus) =>
           \A k \in StatusKeys : systemStore[k] = lastStatus[1][k]

C8_Witness ==
    /\ lastOp = "updateStatus"
    /\ IsDefined(lastStatus)
    /\ lastStatus[1].isRunning = Undefined
    /\ lastStatus[1].network = Some("mainnet")
    /\ systemStore.isRunning = Undefined
    /\ systemStore.network = Some("mainnet")

\* the payloads of the packets of one event name that were dispatched while
\* the hook's handlers were registered on the receiving socket, in order
RECURSIVE Received(_, _)
Received(name, i) ==
    IF i > Len(dispatched) THEN <<>>
    ELSE (IF dispatched[i].name = name /\ dispatched[i].registered
          THEN <<dispatched[i].data>> ELSE <<>>) \o Received(name, i + 1)

\* the store operation the hook wires to an event name
OperationFor(name) ==
    CASE name = "portfolio:update" -> <<"updatePortfolio">>
      [] name = "agent:activity" -> <<"addActivity">>
      [] name = "trade:completed" -> <<"addTrade">>
      [] name = "system:status" -> <<"updateStatus">>
      [] OTHER -> <<>>

\* C9: with the hook's handlers registered, one inbound portfolio:update,
\* trade:completed, agent:activity or system:status invokes exactly one
\* update, on its own container, and leaves the other three unchanged; a
\* cycle:complete leaves all four unchanged.
C9_DispatchIsolation ==
    [][(Len(dispatched') = Len(dispatched) + 1 /\ dispatched'[Len(dispatched')].registered)
          => LET packet == dispatched'[Len(dispatched')]
             IN /\ calls' = OperationFor(packet.name)
                /\ packet.name = "portfolio:update"
                      => /\ portfolioStore' = updatePortfolio(portfolioStore, packet.data)
                         /\ UNCHANGED <<tradeStore, agentStore, systemStore>>
                /\ packet.name = "trade:completed"
                      => /\ tradeStore' = addTrade(tradeStore, packet.data)
                         /\ UNCHANGED <<portfolioStore, agentStore, systemStore>>
                /\ packet.name = "agent:activity"
                      => /\ agentStore' = addActivity(agentStore, packet.data)
                         /\ UNCHANGED <<portfolioStore, tradeStore, systemStore>>
                /\ packet.name = "system:status"
                      => /\ systemStore' = updateStatus(systemStore, packet.data)
                         /\ UNCHANGED <<portfolioStore, tradeStore, agentStore>>
                /\ packet.name = "cycle:complete"
                      => UNCHANGED <<portfolioStore, tradeStore, agentStore,
                                     systemStore>>]_vars

C9_Witness ==
    /\ Len(dispatched) = 2
    /\ dispatched[1].name = "trade:completed" /\ dispatched[1].registered
    /\ dispatched[2].name = "cycle:complete" /\ dispatched[2].registered
    /\ calls = <<>>
    /\ tradeStore.trades = <<dispatched[1].data>>
    /\ agentStore = agentStoreInit
    /\ portfolioStore = portfolioStoreInit
    /\ systemStore = systemStoreInit

\* the container a sequence of snapshots leaves behind: the last one
LastApplied(K, init, datas, field) ==
    IF datas = <<>> THEN init[field] ELSE datas[Len(datas)][K[field]]

PortfolioField ==
    [portfolioValue |-> "totalValue", totalPnL |-> "totalPnL",
     dailyPnL |-> "dailyPnL", dailyLoss |-> "dailyLoss", positions |-> "positions"]

StatusField == [k \in StatusKeys |-> k]

\* C10: every packet dispatched while handlers are registered reaches its
\* container exactly once, and packets of one kind are applied in the order
\* they arrive: the ledger is the received trades newest first, the feed the
\* last 100 received activities newest first, and the portfolio and status
\* containers hold the last received snapshot.
C10_InOrderOnce ==
    /\ tradeStore.trades = Reverse(Received("trade:completed", 1))
    /\ LET acts == Received("agent:activity", 1)
       IN agentStore.activities = Reverse(LastN(acts, Min(Len(acts), FeedCap)))
    /\ \A f \in DOMAIN PortfolioField :
          portfolioStore[f] = LastApplied(PortfolioField, portfolioStoreInit,
                                          Received("portfolio:update", 1), f)
    /\ \A f \in DOMAIN StatusField :
          systemStore[f] = LastApplied(StatusField, systemStoreInit,
                                       Received("system:status", 1), f)

C10_Witness ==
    /\ Len(dispatched) = 3
    /\ \A i \in 1..3 : dispatched[i].registered
    /\ dispatched[1].name = "trade:completed"
    /\ dispatched[2].name = "portfolio:update"
    /\ dispatched[3].name = "trade:completed"
    /\ dispatched[1].data # dispatched[3].data
    /\ tradeStore.trades = <<dispatched[3].data, dispatched[1].data>>
    /\ portfolioStore.portfolioValue = dispatched[2].data.totalValue


\* C11: once the cleanup of useWebSocket has run, a packet dispatched before the
\* effect runs again calls no handler and changes none of the four stores.
C11_CleanupSilences ==
    [][(~mounted /\ Len(dispatched') = Len(dispatched) + 1)
          => (calls' = <<>> /\ UNCHANGED storeVars)]_vars

\* a trade was applied while mounted, and a second trade, dispatched on the same
\* socket after the cleanup, was not
C11_Witness ==
    /\ ~mounted
    /\ hookSock # 0
    /\ Len(dispatched) = 2
    /\ dispatched[1].name = "trade:completed" /\ dispatched[1].registered
    /\ dispatched[2].name = "trade:completed" /\ ~dispatched[2].registered
    /\ sockObjs[hookSock].listeners = NoListeners
    /\ Len(tradeStore.trades) = 1
    /\ calls = <<>>


\* C13: getSocket creates a Socket only when the module's handle is null, and
\* then returns a new one, different from every handle released before;
\* otherwise it returns the handle it holds and creates nothing.
\* disconnectSocket disconnects the handle it holds and sets it to null, and
\* changes nothing when the handle is already null.
C13_AcquireRelease ==
    [][LET call == nCalls' = nCalls + 1
           get == call /\ sockCall' = "getSocket"
           release == call /\ sockCall' = "disconnectSocket"
       IN /\ (get /\ socket = 0) =>
                 /\ nSockets' = nSockets + 1
                 /\ returned' = nSockets'
                 /\ socket' = returned'
                 /\ sockObjs[returned'] = NoSocket
                 /\ sockObjs'[returned'] = IoCreate
                 /\ \A id \in 1..MaxSockets :
                        id # returned' => sockObjs'[id] = sockObjs[id]
          /\ (get /\ socket # 0) =>
                 /\ returned' = socket
                 /\ sockCall = "getSocket" => returned' = returned
                 /\ UNCHANGED <<socket, nSockets, sockObjs>>
          /\ (release /\ socket # 0) =>
                 /\ socket' = 0
                 /\ sockObjs'[socket].state = "closed"
                 /\ UNCHANGED nSockets
          /\ (release /\ socket = 0) => UNCHANGED <<sysVars, storeVars>>]_vars

\* getSocket returned handle 1, which was released, and the next getSocket
\* returned handle 2
C13_Witness ==
    /\ sockCall = "getSocket"
    /\ nCalls >= 3
    /\ returned = 2
    /\ socket = 2
    /\ sockObjs[1].state = "closed"
    /\ sockObjs[2].state = "opening"

\* the Socket objects whose connection is open
LiveSockets == {id \in 1..MaxSockets : Connected(sockObjs[id])}

\* C12: at most one Socket is connected at any time, whatever the order of
\* getSocket, disconnectSocket, the hook's effect and cleanup, and connect()
\* calls on handles obtained earlier.
C12_AtMostOneLive == Cardinality(LiveSockets) <= 1


\* C14: a step in which an api call is made or settles leaves the four stores
\* unchanged, whatever the operation and the response; a store changes only in
\* a step that dispatches a stream packet; and a rejected call made by the
\* control panel is caught there (logged) and written to no store.
C14_GatewayWritesNoStore ==
    [][LET callStep == nReq' = nReq + 1
           settleStep == inflight' # inflight /\ inflight' \subseteq inflight
       IN /\ (callStep \/ settleStep) => UNCHANGED storeVars
          /\ storeVars' # storeVars => Len(dispatched') = Len(dispatched) + 1
          /\ (settleStep /\ lastOutcome'[1].by = "panel"
                 /\ lastOutcome'[1].result = "rejected")
                => (caught' = caught + 1 /\ UNCHANGED storeVars)]_vars

\* stop was called from the panel and resolved after an earlier panel call had
\* failed, and the status store still holds what the last status event gave it
C14_Witness ==
    /\ nReq = 2
    /\ inflight = {}
    /\ caught = 1
    /\ lastOutcome # Undefined
    /\ lastOutcome[1].op = "stopTrading"
    /\ lastOutcome[1].result = "resolved"
    /\ systemStore.isRunning = Some(TRUE)
    /\ Len(dispatched) = 1

\* the claim's accounting of requests: one fetch per call made, the last one
\* for the call made last
OneRequestPerCall ==
    /\ nSent = nReq
    /\ lastSent # Undefined => lastSent[1].call = nReq

\* C15 as stated: one request per call, and a call is rejected exactly when
\* no response arrives or its status is not a success.
C15_ErrorIffStatusNotOk ==
    /\ OneRequestPerCall
    /\ lastOutcome # Undefined =>
          LET o == lastOutcome[1]
          IN /\ (o.result = "rejected") <=> (~o.response.arrived \/ ~o.response.ok)
             /\ o.result = "resolved" => o.value = JsonParse(o.response.body)

\* C15: one request per call, none sent again when a call settles; a call is
\* rejected exactly when no response arrives, or its status is not a success,
\* or its body does not parse as JSON; otherwise it yields the parsed body.
C15_ErrorIffUnusable ==
    /\ OneRequestPerCall
    /\ lastOutcome # Undefined =>
          LET o == lastOutcome[1]
          IN /\ (o.result = "rejected") <=>
                    \/ ~o.response.arrived
                    \/ ~o.response.ok
                    \/ JsonParse(o.response.body) = Undefined
             /\ o.result = "resolved" => o.value = JsonParse(o.response.body)

\* a success response with an empty body has rejected a call, and the two
\* calls made so far have sent two requests
C15_Witness ==
    /\ nReq = 2
    /\ nSent = 2
    /\ inflight = {}
    /\ lastOutcome # Undefined
    /\ lastOutcome[1].response = [arrived |-> TRUE, ok |-> TRUE, body |-> ""]
    /\ lastOutcome[1].result = "rejected"

\* C16: the body of every POST /start request has cycles >= 1 and carries
\* interval_seconds.
C16_StartCarriesPositiveCycles ==
    (lastSent # Undefined /\ lastSent[1].path = "/start") =>
        /\ lastSent[1].body # Undefined
        /\ lastSent[1].body[1].cycles >= 1
        /\ "interval_seconds" \in DOMAIN lastSent[1].body[1]

\* C19: while api calls are awaiting their response, a packet on the wire can
\* always be dispatched, and the status store holds the status events
\* dispatched so far, applied in arrival order.
C19_PendingCallsDoNotBlock ==
    inflight # {} =>
        /\ \A id \in 1..MaxSockets : wire[id] # <<>> => ENABLED GDeliver(id)
        /\ \A f \in DOMAIN StatusField :
              systemStore[f] = LastApplied(StatusField, systemStoreInit,
                                           Received("system:status", 1), f)

\* Stop was pressed while the system was running and its call is still
\* pending; a status event that arrived later has been applied
C19_Witness ==
    /\ \E req \in inflight : req.op = "stopTrading"
    /\ Len(dispatched) = 2
    /\ dispatched[1].data.isRunning = Some(TRUE)
    /\ dispatched[2].data.isRunning = Some(FALSE)
    /\ systemStore.isRunning = Some(FALSE)
    /\ lastOutcome = Undefined


\* C17: applying a filter to the list the same filter returned gives that list
\* again, the same elements in the same order.
C17_FilterIdempotent ==
    reapplied # Undefined => reapplied[1] = result[1]

\* the filter dropped one of two trades, and the second application kept the
\* remaining one
C17_Witness ==
    /\ reapplied # Undefined
    /\ Len(argTrades) = 2
    /\ Len(result[1]) = 1
    /\ Len(reapplied[1]) = 1
    /\ argFilter # NoFilter


\* C18: a setFilter step leaves trades as it was, element for element, and
\* changes nothing but the filter and the filtered view of the trade store.
C18_SetFilterKeepsLedger ==
    [][lastOp' = "setFilter" =>
          /\ tradeStore'.trades = tradeStore.trades
          /\ tradeStore'.filteredTrades =
                 applyFilter(tradeStore.trades, tradeStore'.filter)
          /\ UNCHANGED <<agentStore, portfolioStore, systemStore>>]_vars

\* a filter that hides part of a ledger of three trades has been set, and the
\* three trades are still there
C18_Witness ==
    /\ lastOp = "setFilter"
    /\ lenBefore = 3
    /\ tradeStore.trades = Reverse(admitted)
    /\ Len(tradeStore.trades) = 3
    /\ tradeStore.filter = PendingFilter
    /\ Len(tradeStore.filteredTrades) \in 1..2


\* a trade without a token is in the ledger
MalformedAdmitted ==
    \E i \in 1..Len(tradeStore.trades) : tradeStore.trades[i] = MalformedTrade

\* C20: once a trade without a token has been admitted, every addTrade of a
\* well-formed trade and every setFilter, a token filter included, completes
\* without an exception and leaves filteredTrades = applyFilter(trades, filter).
C20_MalformedNonFatal ==
    (MalformedAdmitted /\ lastOp \in {"addTrade", "setFilter"}) =>
        /\ ~threw
        /\ ~applyFilterThrows(tradeStore.trades, tradeStore.filter)
        /\ tradeStore.filteredTrades =
               applyFilter(tradeStore.trades, tradeStore.filter)


\* C23: each render of the portfolio card reads totalPnL from the store as it
\* is then, and shows 'up' exactly when that value is a number >= 0 and 'down'
\* otherwise; it never shows 'neutral'.
C23_TrendFollowsTotalPnL ==
    [][card' # card =>
          /\ card'[1].totalPnL = portfolioStore.totalPnL
          /\ card'[1].trend \in {"up", "down"}
          /\ card'[1].trend = "up" <=>
                 (IsDefined(portfolioStore.totalPnL) /\ portfolioStore.totalPnL[1] >= 0)]_vars

\* after an update to a negative total the card was rendered and shows 'down'
C23_Witness ==
    /\ card = Some([totalPnL |-> Some(0 - 50), trend |-> "down"])
    /\ portfolioStore.totalPnL = Some(0 - 50)
    /\ lastOp = "updatePortfolio"


\* the trades of T with status s, in T's order
WithStatus(T, s) == SelectSeq(T, LAMBDA t : t.status = s)

\* C26: for the status of every trade in the list, the status select has a
\* value other than 'all' for which the filter the table sets returns exactly
\* the trades of that status; and the view under the filter the table sets
\* for 'win' or 'loss' is not empty when the list holds completed trades.
C26_EveryStatusSelectable ==
    IsDefined(result) =>
        /\ \A i \in 1..Len(argTrades) :
              \E v \in SelectItems \ {"all"} :
                  applyFilter(argTrades, handleFilterChange(<<>>, v))
                      = WithStatus(argTrades, argTrades[i].status)
        /\ (/\ argFilter \in {handleFilterChange(<<>>, v) : v \in {"win", "loss"}}
            /\ WithStatus(argTrades, "completed") # <<>>)
               => result[1] # <<>>

\* C27: with a dateRange in the filter, every trade applyFilter returns has a
\* timestamp that parses to an instant within [start, end], both ends parsed.
C27_DateRangeExcludesUnparsed ==
    (IsDefined(result) /\ IsDefined(argFilter.dateRange)) =>
        \A i \in 1..Len(result[1]) :
            WithinRange(result[1][i].timestamp, argFilter.dateRange[1])


\* C28: a start request is sent only while the store's isRunning is false, and
\* a stop or run-cycle request only while it is true; and no start request is
\* sent while another one, sent since the last dispatched status event, is
\* still awaiting its response.
C28_PanelGuards ==
    [][LET callStep == nReq' = nReq + 1
           req == lastSent'[1]
       IN /\ (callStep /\ req.path = "/start") =>
                 /\ systemStore.isRunning = Some(FALSE)
                 /\ \A r \in inflight :
                        r.op = "startTrading" => r.at # Len(dispatched)
          /\ (callStep /\ req.path \in {"/stop", "/cycle"}) =>
                 systemStore.isRunning = Some(TRUE)]_vars


\* number of packets that sockets have received and not yet dispatched
RECURSIVE OnTheWire(_, _)
OnTheWire(w, n) == IF n = 0 THEN 0 ELSE Len(w[n]) + OnTheWire(w, n - 1)

\* C21: a disconnectSocket() or getSocket() call leaves the four stores as they
\* were, and an event the server emitted while no connection was live is never
\* received or dispatched later: the packets received so far are at most the
\* emissions made while a connection was live.
C21_ReleaseKeepsStores ==
    [][/\ nCalls' # nCalls => UNCHANGED storeVars
       /\ Len(dispatched') + OnTheWire(wire', Len(wire')) <= emitted' - nMissed']_vars

\* C21 witness: the connection was released and re-acquired, one event was
\* emitted while no connection was live, a later one was dispatched on the new
\* connection, and the stores hold the later one only.
C21_Witness ==
    /\ socket = 2
    /\ Connected(sockObjs[2])
    /\ sockCall = "getSocket"
    /\ nMissed = 1
    /\ emitted = 2
    /\ Len(dispatched) = 1
    /\ calls = <<"addTrade">>
    /\ tradeStore.trades = <<Trade2>>


\* the event names the hook's effect registers a handler for
HookEvents == {Registrations[i].name : i \in DOMAIN Registrations}

\* C25: while an instance of the hook is mounted, every event of a name it
\* registered that is dispatched on the module's current connection runs a
\* handler, also on a connection created after a release.
C25_MountedHookKeepsReceiving ==
    [][(/\ mounted
        /\ socket # 0
        /\ wire[socket] # <<>>
        /\ wire'[socket] = Tail(wire[socket])
        /\ Len(dispatched') = Len(dispatched) + 1
        /\ Head(wire[socket]).name \in HookEvents)
       => calls' # <<>>]_vars


\* the handlers one instance of the hook registers for an event name
OnceFor(name) ==
    LET regs == SelectSeq(Registrations, LAMBDA r : r.name = name)
    IN [i \in DOMAIN regs |-> regs[i].handler]

\* C24: while at least one instance of the hook is mounted, an event of a name
\* the hook registers that is dispatched on the shared socket runs that name's
\* handler exactly once, whatever mounts and unmounts came before.
C24_EachEventAppliedOnce ==
    [][(/\ mounted \/ mountedB
        /\ socket # 0
        /\ wire[socket] # <<>>
        /\ wire'[socket] = Tail(wire[socket])
        /\ Len(dispatched') = Len(dispatched) + 1
        /\ Head(wire[socket]).name \in HookEvents)
       => calls' = OnceFor(Head(wire[socket]).name)]_vars

\* no listener is registered on the Socket object for a name the cleanup
\* passes to socket.off
NoneRegistered(obj) ==
    \A i \in DOMAIN Deregistrations : obj.listeners[Deregistrations[i]] = <<>>

\* C22: calling the cleanup function twice in a row leaves the listeners of
\* every Socket object as calling it once does, a call made while no handler
\* is registered changes no listener, and no call changes a store.
C22_CleanupIdempotent ==
    [][cleanRuns' # cleanRuns =>
          /\ sockObjs' = [sockObjs EXCEPT ![hookSock] = SocketOffCleanup(@, 1)]
          /\ NoneRegistered(sockObjs[hookSock]) => sockObjs' = sockObjs
          /\ UNCHANGED storeVars]_vars

\* C22 witness: the cleanup function has been called twice since the effect
\* ran, no handler is registered any more, and the trade store still holds a
\* trade that was delivered before.
C22_Witness ==
    /\ cleanRuns = MaxCleanRuns
    /\ ~mounted
    /\ hookSock # 0
    /\ NoneRegistered(sockObjs[hookSock])
    /\ tradeStore.trades # <<>>

====
